---- MODULE Spec2Model ----
(***************************************************************************)
(* GalleryNet model utilities: scripts/clean_models.py (Model Cleaner),    *)
(* scripts/inspect_model.py (Model Inspector) and                          *)
(* scripts/mobilenetv3_export.py (Model Exporter).                         *)
(*                                                                         *)
(* Each script is a single-threaded sequence of library calls; a script is *)
(* modelled as a program counter walking through its statements, with the  *)
(* file system, the script's local variables and the console as state.     *)
(***************************************************************************)
EXTENDS Integers, Sequences, FiniteSets, TLC

\* ------------------------------------------------------------------ bounds
\* Most declared inputs and initializers a graph has, taken together.
MaxEntries == 3
\* Longest command line of the Cleaner (sys.argv[1:]).
MaxArgs == 2
\* Longest declared-input / declared-output list of an inspected session.
MaxTensors == 2

\* Tensor names of the graphs explored.
Names == {"w", "x", "y"}
\* File-system paths the Cleaner can be given.
Paths == {"a.onnx", "b.onnx"}

RECURSIVE SeqsUpTo(_, _)
\* All sequences over S of length at most n.
SeqsUpTo(S, n) ==
    IF n = 0 THEN {<<>>}
    ELSE LET shorter == SeqsUpTo(S, n - 1)
         IN  shorter \cup {Append(s, e) : s \in {t \in shorter : Len(t) = n - 1}, e \in S}

\* Set of elements of a sequence.
Range(s) == {s[k] : k \in 1..Len(s)}

\* ------------------------------------------------------------------ state
\* The console.
VARIABLES
    out             \* the console: the lines printed so far, in order

\* The Cleaner (scripts/clean_models.py).
VARIABLES
    argv,             \* sys.argv[1:]
    fs,               \* the file system: what is stored at each path
    pc,               \* the statement the Cleaner is at
    idx,              \* position of the for loop in argv
    model,            \* clean_model: model.graph
    initializers,     \* clean_model: the set of initializer names (line 14)
    new_inputs,       \* clean_model: line 17
    used_names,       \* clean_model: line 23
    new_initializers, \* clean_model: line 31
    err,              \* the exception caught at line 43
    original          \* history: model.graph as line 11 loaded it, before lines 14-39

cleanerVars == <<argv, fs, pc, idx, model, initializers, new_inputs, used_names,
                 new_initializers, err, original>>

\* The Inspector (scripts/inspect_model.py).
VARIABLES
    ipc,            \* the statement the Inspector is at
    ifile,          \* what is stored at the inspected path
    sess,           \* check_model: the inference session (its graph's interface)
    i               \* check_model: the index enumerate() yields

inspectorVars == <<ipc, ifile, sess, i>>

\* The Exporter (scripts/mobilenetv3_export.py).
VARIABLES
    epc,            \* the statement the Exporter is at
    outdir,         \* whether the output directory exists
    onnxFile,       \* what is stored at output_onnx
    dataFile,       \* whether output_onnx + ".data" exists
    onnx_model,     \* export_model: the graph onnx.load returned
    raisedAt        \* the statement whose exception ended the process

exporterVars == <<epc, outdir, onnxFile, dataFile, onnx_model, raisedAt>>

vars == <<out, cleanerVars, inspectorVars, exporterVars>>

\* ------------------------------------------------------------- console

\* One printed line: what it reports, the path it names, a number (a count or
\* an index), the text that follows (an error text) and, for a tensor, its
\* name, shape and type.
Line(kind, path, n, text) ==
    [kind |-> kind, path |-> path, n |-> n, text |-> text,
     name |-> "", shape |-> "", type |-> ""]

\* =====================================================================
\* Model Cleaner: scripts/clean_models.py
\* =====================================================================

\* A computation node: only the names it reads matter to the Cleaner.
Node(inputs) == [input |-> inputs]

\* model.graph: declared inputs, initializers, nodes, declared outputs. An
\* entry of input, initializer and output is represented by its name.
Graph(ins, ws, ns, os) == [input |-> ins, initializer |-> ws, node |-> ns, output |-> os]

EmptyGraph == Graph(<<>>, <<>>, <<>>, <<>>)

\* Node lists explored: none, one node reading one or two names, two nodes.
NodeLists ==
    {<<>>, <<Node(<<"w">>)>>, <<Node(<<"x", "w">>)>>, <<Node(<<>>), Node(<<"x">>)>>}

\* Declared-output lists explored.
OutputLists == {<<>>, <<"x">>, <<"w">>}

\* The graphs explored: every declared-input list and initializer list over
\* Names within MaxEntries, with every node list and output list above.
Graphs ==
    UNION {{Graph(ins, ws, ns, os) : ws \in SeqsUpTo(Names, MaxEntries - Len(ins)),
                                     ns \in NodeLists, os \in OutputLists}
           : ins \in SeqsUpTo(Names, MaxEntries)}

\* What a path holds: nothing, bytes that do not parse, or a serialized graph.
Missing == [kind |-> "missing", graph |-> EmptyGraph]
Corrupt == [kind |-> "corrupt", graph |-> EmptyGraph]
Stored(g) == [kind |-> "graph", graph |-> g]

\* ---------------------------------------------------------- clean_model
\* Line 14: {i.name for i in model.graph.initializer}
InitializerNames(g) == {g.initializer[k] : k \in 1..Len(g.initializer)}

RECURSIVE KeepIfReversed(_, _, _)
\* KeepIf with each kept entry put at the front (insert(0, i) for append).
KeepIfReversed(list, names, wanted) ==
    IF list = <<>> THEN <<>>
    ELSE LET rest == KeepIfReversed(Tail(list), names, wanted)
         IN  IF (Head(list) \in names) = wanted THEN rest \o <<Head(list)>> ELSE rest

RECURSIVE KeepIf(_, _, _)
\* A list comprehension [i for i in list if (i.name in names) = wanted], built
\* front to back as Python builds it.
KeepIf(list, names, wanted) ==
    IF list = <<>> THEN <<>>
    ELSE LET rest == KeepIf(Tail(list), names, wanted)
         IN  IF (Head(list) \in names) = wanted THEN <<Head(list)>> \o rest ELSE rest

\* NewInputs without the condition of line 17.
NewInputsUnfiltered(inputs, inits) == inputs

\* Line 17: [i for i in model.graph.input if i.name not in initializers]
NewInputs(inputs, inits) == KeepIf(inputs, inits, FALSE)

\* PopAll with the loop condition len(list) > 1.
PopAllButOne(list) == IF Len(list) > 1 THEN SubSeq(list, 1, 1) ELSE list

RECURSIVE PopAll(_)
\* Lines 18-19 and 37-38: while len(list) > 0: list.pop()
PopAll(list) == IF Len(list) > 0 THEN PopAll(SubSeq(list, 1, Len(list) - 1)) ELSE list

\* Lines 20 and 39: list.extend(items)
Extend(list, items) == list \o items

RECURSIVE AddAll(_, _)
\* Lines 25-26 and 27-28: for name in list: used_names.add(name)
AddAll(used, list) ==
    IF list = <<>> THEN used ELSE AddAll(used \cup {Head(list)}, Tail(list))

RECURSIVE AddNodeInputs(_, _)
\* Lines 24-26: for node in model.graph.node: for input_name in node.input: add
AddNodeInputs(used, nodes) ==
    IF nodes = <<>> THEN used
    ELSE AddNodeInputs(AddAll(used, Head(nodes).input), Tail(nodes))

\* UsedNames without the loop of lines 27-28.
UsedNamesNodesOnly(g) == AddNodeInputs({}, g.node)

\* Lines 23-28: the used names, from the nodes and then from the outputs.
UsedNames(g) == AddAll(AddNodeInputs({}, g.node), g.output)

\* Line 31: [i for i in model.graph.initializer if i.name in used_names]
NewInitializers(inits, used) == KeepIf(inits, used, TRUE)

\* Removed counting the names removed, not the entries.
RemovedNames(g, kept) ==
    Cardinality(InitializerNames(g)) - Cardinality({kept[k] : k \in 1..Len(kept)})

\* Lines 33-34: the count reported, when the condition of line 33 holds.
Removed(g, kept) == Len(g.initializer) - Len(kept)

\* Line 33: if len(new_initializers) < len(model.graph.initializer)
ReportsRemoval(g, kept) == Len(kept) < Len(g.initializer)

\* clean_model's locals, as they are outside a call.
NoLocals ==
    /\ model' = EmptyGraph
    /\ initializers' = {}
    /\ new_inputs' = <<>>
    /\ used_names' = {}
    /\ new_initializers' = <<>>
    /\ original' = EmptyGraph

\* Lines 50-51: clean_model returned; the for loop takes the next path or ends.
Return ==
    /\ idx' = idx + 1
    /\ pc' = IF idx + 1 <= Len(argv) THEN "load" ELSE "exit"
    /\ NoLocals

\* Lines 46-51: the script's entry: a usage line, or the loop over the paths.
Main ==
    /\ pc = "main"
    /\ IF Len(argv) < 1
       THEN /\ out' = Append(out, Line("Usage", "", 0, ""))
            /\ pc' = "exit"
            /\ idx' = idx
       ELSE /\ out' = out
            /\ pc' = "load"
            /\ idx' = 1
    /\ UNCHANGED <<argv, fs, model, initializers, new_inputs, used_names,
                   new_initializers, err>>
    /\ UNCHANGED <<original, inspectorVars, exporterVars>>

\* Line 11: model = onnx.load(model_path). A missing or malformed file raises.
Load ==
    /\ pc = "load"
    /\ LET file == fs[argv[idx]]
       IN  IF file.kind = "graph"
           THEN /\ model' = file.graph
                /\ original' = file.graph
                /\ pc' = "inputs"
                /\ err' = err
           ELSE /\ model' = model
                /\ original' = original
                /\ pc' = "except"
                /\ err' = IF file.kind = "missing" THEN "no such file" ELSE "parse error"
    /\ UNCHANGED <<out, argv, fs, idx, initializers, new_inputs, used_names,
                   new_initializers>>
    /\ UNCHANGED <<inspectorVars, exporterVars>>

\* Lines 14-20: drop the declared inputs that are initializers.
FixInputs ==
    /\ pc = "inputs"
    /\ LET inits == InitializerNames(model)
           kept  == NewInputs(model.input, inits)
       IN  /\ initializers' = inits
           /\ new_inputs' = kept
           /\ model' = [model EXCEPT !.input = Extend(PopAll(model.input), kept)]
    /\ pc' = "used"
    /\ UNCHANGED <<out, argv, fs, idx, used_names, new_initializers, err>>
    /\ UNCHANGED <<original, inspectorVars, exporterVars>>

\* Lines 23-28: collect the names used by nodes and outputs.
CollectUsed ==
    /\ pc = "used"
    /\ used_names' = UsedNames(model)
    /\ pc' = "initializers"
    /\ UNCHANGED <<out, argv, fs, idx, model, initializers, new_inputs,
                   new_initializers, err>>
    /\ UNCHANGED <<original, inspectorVars, exporterVars>>

\* Lines 31-39: drop the unused initializers, reporting how many.
FilterInitializers ==
    /\ pc = "initializers"
    /\ LET kept == NewInitializers(model.initializer, used_names)
       IN  /\ new_initializers' = kept
           /\ out' = IF ReportsRemoval(model, kept)
                     THEN Append(out, Line("Removing", argv[idx], Removed(model, kept), ""))
                     ELSE out
           /\ model' = [model EXCEPT !.initializer = Extend(PopAll(model.initializer), kept)]
    /\ pc' = "save"
    /\ UNCHANGED <<argv, fs, idx, initializers, new_inputs, used_names, err>>
    /\ UNCHANGED <<original, inspectorVars, exporterVars>>

\* What line 41 leaves at the path when it succeeds.
Saved(g) == Stored(g)

\* Line 41: onnx.save(model, model_path). The write can fail (an I/O error),
\* before anything is written or after the file was truncated.
Save ==
    /\ pc = "save"
    /\ \/ /\ fs' = [fs EXCEPT ![argv[idx]] = Saved(model)]
          /\ pc' = "saved"
          /\ err' = err
       \/ /\ \E left \in {fs[argv[idx]], Corrupt} : fs' = [fs EXCEPT ![argv[idx]] = left]
          /\ pc' = "except"
          /\ err' = "write error"
    /\ UNCHANGED <<out, argv, idx, model, initializers, new_inputs, used_names,
                   new_initializers>>
    /\ UNCHANGED <<original, inspectorVars, exporterVars>>

\* Line 42: print(f"Successfully cleaned: {model_path}")
PrintSuccess ==
    /\ pc = "saved"
    /\ out' = Append(out, Line("Successfully cleaned", argv[idx], 0, ""))
    /\ Return
    /\ UNCHANGED <<argv, fs, err>>
    /\ UNCHANGED <<inspectorVars, exporterVars>>

\* Except with an empty handler ("except Exception: pass").
ExceptSilent ==
    /\ pc = "except"
    /\ out' = out
    /\ err' = ""
    /\ Return
    /\ UNCHANGED <<argv, fs>>
    /\ UNCHANGED <<inspectorVars, exporterVars>>

\* Except with the try around the loop: the first failure ends the batch.
ExceptEndsBatch ==
    /\ pc = "except"
    /\ out' = Append(out, Line("Failed to clean", argv[idx], 0, err))
    /\ err' = ""
    /\ idx' = idx
    /\ pc' = "exit"
    /\ NoLocals
    /\ UNCHANGED <<argv, fs>>
    /\ UNCHANGED <<inspectorVars, exporterVars>>

\* Lines 43-44: except Exception as e: print(f"Failed to clean {model_path}: {e}")
Except ==
    /\ pc = "except"
    /\ out' = Append(out, Line("Failed to clean", argv[idx], 0, err))
    /\ err' = ""
    /\ Return
    /\ UNCHANGED <<argv, fs>>
    /\ UNCHANGED <<inspectorVars, exporterVars>>

\* =====================================================================
\* Model Inspector: scripts/inspect_model.py
\* =====================================================================

\* Line 16: the path the Inspector is run on.
InspectedPath == "assets/models/version-slim-320.onnx"

\* A declared input or output of a session: name, shape, element type.
Tensor(name, shape, type) == [name |-> name, shape |-> shape, type |-> type]

\* Declared tensors explored: fixed and symbolic shapes, two element types.
Tensors ==
    {Tensor("x", "[1, 3, 224, 224]", "tensor(float)"),
     Tensor("y", "[1, 1000]", "tensor(float)"),
     Tensor("x", "['N', 3]", "tensor(int64)")}

\* The interface of a model: sess.get_inputs() and sess.get_outputs().
Interface(ins, outs) == [inputs |-> ins, outputs |-> outs]

NoSession == Interface(<<>>, <<>>)

\* What the inspected path holds: a model the runtime accepts, or anything
\* else (no file, bytes that do not parse, a graph that fails validation).
ValidModel(iface) == [kind |-> "valid", iface |-> iface]
InvalidModel(kind) == [kind |-> kind, iface |-> NoSession]

\* Lines 9 and 11: one line for the tensor enumerate() yields at index n.
TensorLine(kind, n, t) ==
    [kind |-> kind, path |-> "", n |-> n, text |-> "",
     name |-> t.name, shape |-> t.shape, type |-> t.type]

\* Line 6: sess = ort.InferenceSession(path); raises unless the model is valid.
Construct ==
    /\ ipc = "session"
    /\ IF ifile.kind = "valid"
       THEN /\ sess' = ifile.iface
            /\ ipc' = "header"
       ELSE /\ sess' = sess
            /\ ipc' = "except"
    /\ UNCHANGED <<out, ifile, i>>
    /\ UNCHANGED <<cleanerVars, exporterVars>>

\* Line 7: print(f"Model: {path}")
PrintHeader ==
    /\ ipc = "header"
    /\ out' = Append(out, Line("Model", InspectedPath, 0, ""))
    /\ ipc' = "inputs"
    /\ i' = 0
    /\ UNCHANGED <<ifile, sess>>
    /\ UNCHANGED <<cleanerVars, exporterVars>>

\* PrintInput with one counter shared by both loops.
PrintInputSharedIndex ==
    /\ ipc = "inputs"
    /\ IF i < Len(sess.inputs)
       THEN /\ out' = Append(out, TensorLine("Input", i, sess.inputs[i + 1]))
            /\ i' = i + 1
            /\ ipc' = ipc
       ELSE /\ out' = out
            /\ i' = i
            /\ ipc' = "outputs"
    /\ UNCHANGED <<ifile, sess>>
    /\ UNCHANGED <<cleanerVars, exporterVars>>

\* Lines 8-9: for i, input in enumerate(sess.get_inputs()): print(...)
PrintInput ==
    /\ ipc = "inputs"
    /\ IF i < Len(sess.inputs)
       THEN /\ out' = Append(out, TensorLine("Input", i, sess.inputs[i + 1]))
            /\ i' = i + 1
            /\ ipc' = ipc
       ELSE /\ out' = out
            /\ i' = 0
            /\ ipc' = "outputs"
    /\ UNCHANGED <<ifile, sess>>
    /\ UNCHANGED <<cleanerVars, exporterVars>>

\* Lines 10-11: for i, output in enumerate(sess.get_outputs()): print(...)
PrintOutput ==
    /\ ipc = "outputs"
    /\ IF i < Len(sess.outputs)
       THEN /\ out' = Append(out, TensorLine("Output", i, sess.outputs[i + 1]))
            /\ i' = i + 1
            /\ ipc' = ipc
       ELSE /\ out' = out
            /\ i' = i
            /\ ipc' = "exit"
    /\ UNCHANGED <<ifile, sess>>
    /\ UNCHANGED <<cleanerVars, exporterVars>>

\* Lines 12-13: except Exception as e: print(f"Error loading {path}: {e}")
InspectExcept ==
    /\ ipc = "except"
    /\ out' = Append(out, Line("Error loading", InspectedPath, 0, ifile.kind))
    /\ ipc' = "exit"
    /\ UNCHANGED <<ifile, sess, i>>
    /\ UNCHANGED <<cleanerVars, exporterVars>>

\* =====================================================================
\* Model Exporter: scripts/mobilenetv3_export.py
\* =====================================================================

\* Line 22: the path the Exporter writes.
OutputOnnx == "assets/models/mobilenetv3.onnx"

\* Line 49: data_file = output_onnx + ".data"
DataPath == "assets/models/mobilenetv3.onnx.data"

\* An unhandled exception: export_model has no try, the process ends.
Raise(at) ==
    /\ epc' = "raised"
    /\ raisedAt' = at

\* Lines 11-12: os.makedirs(output_dir, exist_ok=True)
MakeDirs ==
    /\ epc = "makedirs"
    /\ \/ /\ outdir' = TRUE
          /\ epc' = "create"
          /\ raisedAt' = raisedAt
       \/ /\ ~outdir
          /\ outdir' = outdir
          /\ Raise("makedirs")
    /\ UNCHANGED <<out, onnxFile, dataFile, onnx_model>>
    /\ UNCHANGED <<cleanerVars, inspectorVars>>

\* Lines 16-19: print, timm.create_model (downloads the weights), model.eval()
CreateModel ==
    /\ epc = "create"
    /\ out' = Append(out, Line("Loading", "", 0, "mobilenetv3_large_100"))
    /\ \/ /\ epc' = "export"
          /\ raisedAt' = raisedAt
       \/ Raise("create_model")
    /\ UNCHANGED <<outdir, onnxFile, dataFile, onnx_model>>
    /\ UNCHANGED <<cleanerVars, inspectorVars>>

\* Lines 22-38: print, torch.onnx.export: writes output_onnx, with the weights
\* in it or in a ".data" file beside it. A failed export leaves what it had
\* written so far.
Export ==
    /\ epc = "export"
    /\ out' = Append(out, Line("Exporting model to", OutputOnnx, 0, ""))
    /\ \/ /\ \E external \in BOOLEAN :
                /\ onnxFile' = IF external THEN "external" ELSE "inline"
                /\ dataFile' = IF external THEN TRUE ELSE dataFile
          /\ epc' = "reload"
          /\ raisedAt' = raisedAt
       \/ /\ onnxFile' \in {onnxFile, "truncated"}
          /\ dataFile' \in {dataFile, TRUE}
          /\ Raise("export")
    /\ UNCHANGED <<outdir, onnx_model>>
    /\ UNCHANGED <<cleanerVars, inspectorVars>>

\* Line 43: onnx.load reads output_onnx and the weight data it refers to.
Loadable == onnxFile = "inline" \/ (onnxFile = "external" /\ dataFile)

\* Lines 41-43: print, onnx_model = onnx.load(output_onnx)
Reload ==
    /\ epc = "reload"
    /\ out' = Append(out, Line("Ensuring model is self-contained", "", 0, ""))
    /\ \/ /\ Loadable
          /\ onnx_model' = "loaded"
          /\ epc' = "resave"
          /\ raisedAt' = raisedAt
       \/ /\ onnx_model' = onnx_model
          /\ Raise("load")
    /\ UNCHANGED <<outdir, onnxFile, dataFile>>
    /\ UNCHANGED <<cleanerVars, inspectorVars>>

\* Resaved with the weights left in the ".data" file.
ResavedExternal == "external"

\* Line 46: what onnx.save writes for a loaded model: one file holding the
\* weights (line 45).
Resaved == "inline"

\* Line 46: onnx.save(onnx_model, output_onnx)
Resave ==
    /\ epc = "resave"
    /\ \/ /\ onnxFile' = Resaved
          /\ epc' = "remove"
          /\ raisedAt' = raisedAt
       \/ /\ onnxFile' \in {onnxFile, "truncated"}
          /\ Raise("save")
    /\ UNCHANGED <<out, outdir, dataFile, onnx_model>>
    /\ UNCHANGED <<cleanerVars, inspectorVars>>

\* RemoveData without line 52.
RemoveDataKeepsFile ==
    /\ epc = "remove"
    /\ out' = IF dataFile
              THEN Append(out, Line("Removing external data file", DataPath, 0, ""))
              ELSE out
    /\ dataFile' = dataFile
    /\ epc' = "done"
    /\ raisedAt' = raisedAt
    /\ UNCHANGED <<outdir, onnxFile, onnx_model>>
    /\ UNCHANGED <<cleanerVars, inspectorVars>>

\* Lines 49-52: if os.path.exists(data_file): print, os.remove(data_file)
RemoveData ==
    /\ epc = "remove"
    /\ IF dataFile
       THEN /\ out' = Append(out, Line("Removing external data file", DataPath, 0, ""))
            /\ \/ /\ dataFile' = FALSE
                  /\ epc' = "done"
                  /\ raisedAt' = raisedAt
               \/ /\ dataFile' = dataFile
                  /\ Raise("remove")
       ELSE /\ out' = out
            /\ dataFile' = dataFile
            /\ epc' = "done"
            /\ raisedAt' = raisedAt
    /\ UNCHANGED <<outdir, onnxFile, onnx_model>>
    /\ UNCHANGED <<cleanerVars, inspectorVars>>

\* Lines 54-55: print("Done!"); print(f"Model saved to: ...")
PrintDone ==
    /\ epc = "done"
    /\ out' = out \o <<Line("Done!", "", 0, ""), Line("Model saved to", OutputOnnx, 0, "")>>
    /\ epc' = "exit"
    /\ UNCHANGED <<outdir, onnxFile, dataFile, onnx_model, raisedAt>>
    /\ UNCHANGED <<cleanerVars, inspectorVars>>

\* =====================================================================
\* The three tools are separate processes: a run is one of them.
\* =====================================================================

CleanerIdle ==
    /\ pc = "idle"
    /\ argv = <<>>
    /\ fs = [p \in Paths |-> Missing]
    /\ idx = 0
    /\ model = EmptyGraph
    /\ initializers = {}
    /\ new_inputs = <<>>
    /\ used_names = {}
    /\ new_initializers = <<>>
    /\ err = ""
    /\ original = EmptyGraph

InspectorIdle ==
    /\ ipc = "idle"
    /\ ifile = InvalidModel("missing")
    /\ sess = NoSession
    /\ i = 0

ExporterIdle ==
    /\ epc = "idle"
    /\ outdir = FALSE
    /\ onnxFile = "absent"
    /\ dataFile = FALSE
    /\ onnx_model = "none"
    /\ raisedAt = ""

\* python clean_models.py <argv>: any command line over Paths; each path is
\* missing, malformed or holds a graph.
InitCleaner ==
    /\ out = <<>>
    /\ pc = "main"
    /\ argv \in SeqsUpTo(Paths, MaxArgs)
    /\ \E g \in Graphs : fs \in [Paths -> {Missing, Corrupt, Stored(g)}]
    /\ idx = 0
    /\ model = EmptyGraph
    /\ initializers = {}
    /\ new_inputs = <<>>
    /\ used_names = {}
    /\ new_initializers = <<>>
    /\ err = ""
    /\ original = EmptyGraph
    /\ InspectorIdle
    /\ ExporterIdle

\* python inspect_model.py: the inspected path holds a valid model with any
\* interface, or nothing the runtime accepts.
InitInspector ==
    /\ out = <<>>
    /\ ipc = "session"
    /\ ifile \in {ValidModel(Interface(a, b)) : a \in SeqsUpTo(Tensors, MaxTensors),
                                                 b \in SeqsUpTo(Tensors, MaxTensors)}
                 \cup {InvalidModel(k) : k \in {"missing", "corrupt", "invalid graph"}}
    /\ sess = NoSession
    /\ i = 0
    /\ CleanerIdle
    /\ ExporterIdle

\* python mobilenetv3_export.py: the output directory may exist, and hold
\* the files of an earlier run.
InitExporter ==
    /\ out = <<>>
    /\ epc = "makedirs"
    /\ outdir \in BOOLEAN
    /\ onnxFile \in {"absent", "inline", "external", "truncated"}
    /\ dataFile \in BOOLEAN
    /\ ~outdir => (onnxFile = "absent" /\ ~dataFile)
    /\ onnx_model = "none"
    /\ raisedAt = ""
    /\ CleanerIdle
    /\ InspectorIdle

\* Graphs for runs over several files: one cleaning changes nothing, one
\* removes a declared input only, one removes an initializer too.
BatchGraphs ==
    {Graph(<<"x">>, <<"w">>, <<Node(<<"x", "w">>)>>, <<"y">>),
     Graph(<<"x", "w">>, <<"w">>, <<Node(<<"x", "w">>)>>, <<"y">>),
     Graph(<<"w">>, <<"w", "y">>, <<Node(<<"w">>)>>, <<"x">>)}

\* python clean_models.py <argv>, each path on its own missing, malformed or
\* holding one of BatchGraphs.
InitBatch ==
    /\ out = <<>>
    /\ pc = "main"
    /\ argv \in SeqsUpTo(Paths, MaxArgs)
    /\ fs \in [Paths -> {Missing, Corrupt} \cup {Stored(g) : g \in BatchGraphs}]
    /\ idx = 0
    /\ model = EmptyGraph
    /\ initializers = {}
    /\ new_inputs = <<>>
    /\ used_names = {}
    /\ new_initializers = <<>>
    /\ err = ""
    /\ original = EmptyGraph
    /\ InspectorIdle
    /\ ExporterIdle

Init == InitCleaner \/ InitInspector \/ InitExporter

Next ==
    \/ Main \/ Load \/ FixInputs \/ CollectUsed \/ FilterInitializers \/ Save
    \/ PrintSuccess \/ Except
    \/ Construct \/ PrintHeader \/ PrintInput \/ PrintOutput \/ InspectExcept
    \/ MakeDirs \/ CreateModel \/ Export \/ Reload \/ Resave \/ RemoveData \/ PrintDone

Spec == Init /\ [][Next]_vars

CleanerNext ==
    \/ Main \/ Load \/ FixInputs \/ CollectUsed \/ FilterInitializers \/ Save
    \/ PrintSuccess \/ Except

\* A run of the Cleaner over several files. The script is a sequential
\* process: it takes its next step as long as it has one.
FairCleaner == InitBatch /\ [][CleanerNext]_vars /\ WF_vars(CleanerNext)

\* =====================================================================
\* Properties
\* =====================================================================
\* The path clean_model is working on.
Path == argv[idx]

\* The names referenced by some node input or by some declared output.
ReferencedNames(g) ==
    UNION {Range(g.node[k].input) : k \in 1..Len(g.node)} \cup Range(g.output)

\* Whether the console holds the line.
Printed(line) == \E k \in 1..Len(out) : out[k] = line

\* The last line of the console is the line.
LastPrinted(line) == out # <<>> /\ out[Len(out)] = line

\* s is the beginning of t.
IsPrefix(s, t) == Len(s) <= Len(t) /\ SubSeq(t, 1, Len(s)) = s

\* ---------------------------------------------------------------- C1
\* C1: once clean_model has saved a graph, the set of initializer names of
\* the stored graph is exactly the set of original initializer names that
\* are referenced by a node input or a declared output: no used initializer
\* is removed and no unused one survives.
C1_InitializersAreUsedOriginals ==
    pc = "saved" =>
        /\ fs[Path].kind = "graph"
        /\ Range(fs[Path].graph.initializer) =
               Range(original.initializer) \cap ReferencedNames(original)

\* A graph was saved from which an unused initializer was removed and in
\* which an initializer used only by a declared output was kept.
C1_Witness ==
    /\ pc = "saved"
    /\ \E n \in Range(original.initializer) : n \notin ReferencedNames(original)
    /\ \E n \in Range(fs[Path].graph.initializer) :
           /\ n \in Range(original.output)
           /\ \A k \in 1..Len(original.node) : n \notin Range(original.node[k].input)

\* ---------------------------------------------------------------- C2
\* C2: once clean_model has saved a graph, no initializer name of the stored
\* graph is a declared input of it; a name that was both an initializer and a
\* declared input is no longer a declared input, and is still an initializer
\* exactly when it is referenced by a node input or a declared output.
C2_NoInitializerIsDeclaredInput ==
    pc = "saved" =>
        LET g == fs[Path].graph
        IN  /\ Range(g.initializer) \cap Range(g.input) = {}
            /\ \A n \in Range(original.initializer) \cap Range(original.input) :
                   /\ n \notin Range(g.input)
                   /\ n \in Range(g.initializer) <=> n \in ReferencedNames(original)

\* A graph was saved in which a name that was both an initializer and a
\* declared input is kept as an initializer only, beside a declared input
\* that was no initializer.
C2_Witness ==
    /\ pc = "saved"
    /\ \E n \in Range(original.initializer) \cap Range(original.input) :
           n \in Range(fs[Path].graph.initializer)
    /\ fs[Path].graph.input # <<>>

\* ---------------------------------------------------------------- C3
\* The Cleaner has already cleaned path p successfully in this run.
CleanedBefore(p) == Printed(Line("Successfully cleaned", p, 0, ""))

\* C3: cleaning is idempotent: when clean_model saves a path it has already
\* cleaned successfully, the stored graph is the graph it loaded (the output
\* of the earlier cleaning), and no initializer was removed.
C3_CleaningIsIdempotent ==
    (pc = "saved" /\ CleanedBefore(Path)) =>
        /\ fs[Path] = Stored(original)
        /\ Len(new_initializers) = Len(original.initializer)
        /\ ~LastPrinted(Line("Removing", Path, Len(original.initializer) - Len(new_initializers), ""))

\* A path was cleaned a second time, after a first cleaning that removed
\* initializers and left some, and declared inputs, in the graph.
C3_Witness ==
    /\ pc = "saved"
    /\ CleanedBefore(Path)
    /\ \E n \in 1..MaxEntries : Printed(Line("Removing", Path, n, ""))
    /\ original.initializer # <<>>
    /\ original.input # <<>>

\* ---------------------------------------------------------------- C4
\* The texts of the exceptions onnx.load raises.
LoadErrors == {"no such file", "parse error"}

\* C4: when loading a path fails, control goes to the handler, which prints
\* a failure line naming the path and returns; the save step is not reached
\* and what the path holds (nothing, or the malformed file) is unchanged.
C4_FailedLoadLeavesFileAlone ==
    [][/\ (pc = "load" /\ fs[Path].kind # "graph") => (pc' = "except" /\ fs' = fs)
       /\ (pc = "except" /\ err \in LoadErrors) =>
              /\ out' = Append(out, Line("Failed to clean", Path, 0, err))
              /\ fs' = fs
              /\ fs[Path].kind # "graph"
              /\ pc' \in {"load", "exit"}]_vars

\* The failure line of a missing path was printed after other lines of the
\* same run, and the path is still missing.
C4_Witness ==
    /\ out # <<>>
    /\ out[Len(out)].kind = "Failed to clean"
    /\ out[Len(out)].text = "no such file"
    /\ fs[out[Len(out)].path] = Missing
    /\ Len(out) > 1

\* ---------------------------------------------------------------- C5
\* The outcome lines of the console, in order.
IsOutcome(line) == line.kind \in {"Successfully cleaned", "Failed to clean"}
Outcomes == SelectSeq(out, IsOutcome)

\* C5: a run over a non-empty argument list ends normally, with exactly one
\* outcome line per argument, in argument order, each naming its path,
\* whatever fails on the way.
C5_EveryPathGetsOneOutcome ==
    (pc = "main" /\ argv # <<>>) ~>
        (/\ pc = "exit"
         /\ Len(Outcomes) = Len(argv)
         /\ \A k \in 1..Len(argv) : Outcomes[k].path = argv[k])

\* A run ended in which the first path failed and the second was cleaned.
C5_Witness ==
    /\ pc = "exit"
    /\ Len(argv) = 2
    /\ Len(Outcomes) = 2
    /\ Outcomes[1].kind = "Failed to clean"
    /\ Outcomes[2].kind = "Successfully cleaned"
    /\ Outcomes[2].path = argv[2]

\* ---------------------------------------------------------------- C6
\* The number of original initializers minus the number kept.
RemovedCount == Len(original.initializer) - Len(model.initializer)

\* C6 as claimed: after step 4, for every graph that loaded, the Cleaner has
\* reported the count of initializers removed.
C6_AlwaysReportsRemovedCount ==
    pc = "save" => LastPrinted(Line("Removing", Path, RemovedCount, ""))

\* C6 as amended: after step 4 the Cleaner has reported the count removed
\* exactly when at least one initializer was removed; the count reported is
\* the number of original initializers minus the number kept.
C6_ReportsRemovedCountWhenPositive ==
    pc = "save" =>
        IF RemovedCount > 0
        THEN LastPrinted(Line("Removing", Path, RemovedCount, ""))
        ELSE /\ RemovedCount = 0
             /\ out # <<>> => out[Len(out)].kind # "Removing"

\* Step 4 removed two initializers of the same name and reported two.
C6_Witness ==
    /\ pc = "save"
    /\ RemovedCount = 2
    /\ Cardinality(Range(original.initializer)) = 1
    /\ LastPrinted(Line("Removing", Path, 2, ""))

\* ---------------------------------------------------------------- C7
\* The lines of the tensors of a list, indexed from zero.
TensorLines(kind, list) == [k \in 1..Len(list) |-> TensorLine(kind, k - 1, list[k])]

\* What the Inspector prints for a valid model.
InspectionOf(iface) ==
    <<Line("Model", InspectedPath, 0, "")>>
        \o TensorLines("Input", iface.inputs) \o TensorLines("Output", iface.outputs)

\* C7: once the session is constructed, the console is at every moment the
\* beginning, and at the end the whole, of: the header, one line per declared
\* input in order, then one line per declared output in order, each with its
\* zero-based index, name, shape and type; the session is left as constructed.
C7_PrintsInputsThenOutputs ==
    ipc \in {"header", "inputs", "outputs", "exit"} /\ ifile.kind = "valid" =>
        /\ sess = ifile.iface
        /\ IsPrefix(out, InspectionOf(ifile.iface))
        /\ ipc = "exit" => out = InspectionOf(ifile.iface)

\* The Inspector has printed a model of two inputs and one or more outputs.
C7_Witness ==
    /\ ipc = "exit"
    /\ Len(sess.inputs) >= 2
    /\ Len(sess.outputs) >= 1
    /\ Len(out) = 1 + Len(sess.inputs) + Len(sess.outputs)

\* ---------------------------------------------------------------- C8
\* C8: whenever export_model runs to completion, the output file exists and
\* no ".data" file is beside it.
C8_CompletionLeavesOneFile ==
    epc = "exit" => (onnxFile # "absent" /\ ~dataFile)

\* export_model completed after removing a ".data" file.
C8_Witness ==
    /\ epc = "exit"
    /\ Printed(Line("Removing external data file", DataPath, 0, ""))

\* ---------------------------------------------------------------- C9
\* C9: the ".data" file is deleted only by the removal step, which is reached
\* only with the graph reloaded and the output file re-saved with its weights
\* in it; a step that fails before the removal ends the process with its
\* exception, no removal line printed and no ".data" file deleted.
C9_DataRemovedOnlyAfterInlining ==
    [][/\ (dataFile /\ ~dataFile') =>
              (epc = "remove" /\ onnx_model = "loaded" /\ onnxFile = "inline"
               /\ onnxFile' = "inline")
       /\ (epc' = "raised" /\ epc # "remove") =>
              /\ dataFile => dataFile'
              /\ raisedAt' \in {"makedirs", "create_model", "export", "load", "save"}
              /\ ~\E k \in 1..Len(out') : out'[k].kind = "Removing external data file"]_vars

\* The ".data" file the export step wrote has been removed; the output file
\* holds the weights.
C9_Witness ==
    /\ epc = "done"
    /\ ~dataFile
    /\ onnxFile = "inline"
    /\ Printed(Line("Removing external data file", DataPath, 0, ""))

\* ---------------------------------------------------------------- C10
\* The entry of a list is not an original initializer name.
NotInitializer(n) == n \notin Range(original.initializer)

\* The entry of a list is referenced by the original graph.
Referenced(n) == n \in ReferencedNames(original)

\* C10: the graph clean_model saves has the nodes and declared outputs of the
\* graph it loaded; its declared inputs are the original ones that are not
\* initializer names, and its initializers the original ones that are
\* referenced, each in the original order and as many times as it occurred.
C10_OnlyInputsAndInitializersChange ==
    pc = "saved" =>
        LET g == fs[Path].graph
        IN  /\ g.node = original.node
            /\ g.output = original.output
            /\ g.input = SelectSeq(original.input, NotInitializer)
            /\ g.initializer = SelectSeq(original.initializer, Referenced)

\* A graph was saved that keeps two different declared inputs, or two
\* different initializers, of the graph loaded.
C10_Witness ==
    /\ pc = "saved"
    /\ original.node # <<>>
    /\ \/ Cardinality(Range(fs[Path].graph.input)) = 2
       \/ Cardinality(Range(fs[Path].graph.initializer)) = 2
====
